---- MODULE Spec2Model ----
(***************************************************************************)
(* hues: the template expansion engine (hues_format_c / hues_format_p),   *)
(* the message renderer (hues_log) and the process-wide configuration.    *)
(*                                                                         *)
(* Text is a sequence of one-character strings.  Memory is a function     *)
(* from byte offsets to cells; a cell holds a character, NUL, or UNINIT   *)
(* (a byte the program has not written).                                  *)
(***************************************************************************)
EXTENDS Integers, Sequences, FiniteSets, TLC

\* ------------------------------------------------------------------ bounds
MaxTplLen == 3      \* longest template given to hues_format_c / hues_format_p
MaxCap == 3         \* largest buffer_size given to hues_format_c / hues_format_p
MaxReg == 2         \* longest registry given to hues_format_c / hues_format_p

\* --------------------------------------------------------------- constants
max_spec_len == 3   \* size_t max_spec_len = 3

NUL == ""           \* '\0'
UNINIT == "??"      \* a byte no one has written yet
NEWLINE == "\n"

Min(a, b) == IF a < b THEN a ELSE b
Max(a, b) == IF a > b THEN a ELSE b

\* ------------------------------------------------------------------ levels
HUES_LEVEL_TRACE == 0
HUES_LEVEL_DEBUG == 1
HUES_LEVEL_INFO == 2
HUES_LEVEL_WARN == 3
HUES_LEVEL_SEVERE == 4
HUES_LEVEL_CRITICAL == 5
HUES_LEVEL_UNKNOWN == 6

\* the hues_level literals TRACE .. CRITICAL of hues.h
LevelName(l) ==
    CASE l = HUES_LEVEL_TRACE -> <<"T","R","A","C","E">>
      [] l = HUES_LEVEL_DEBUG -> <<"D","E","B","U","G">>
      [] l = HUES_LEVEL_INFO -> <<"I","N","F","O">>
      [] l = HUES_LEVEL_WARN -> <<"W","A","R","N">>
      [] l = HUES_LEVEL_SEVERE -> <<"S","E","V","E","R","E">>
      [] l = HUES_LEVEL_CRITICAL -> <<"C","R","I","T","I","C","A","L">>
      [] OTHER -> <<"?","?","?">>

\* --------------------------------------------------------------- arguments
\* One variadic argument: a hues_level, a hues_code_location or an int.
LevelArg(l) ==
    [kind |-> "level", level |-> l, name |-> LevelName(l), val |-> 0,
     method_name |-> <<>>, file |-> <<>>, line |-> 0]
LocArg ==
    [kind |-> "loc", level |-> 0, name |-> <<>>, val |-> 0,
     method_name |-> <<"m">>, file |-> <<"f">>, line |-> 9]
IntArg(n) ==
    [kind |-> "int", level |-> 0, name |-> <<>>, val |-> n,
     method_name |-> <<>>, file |-> <<>>, line |-> 0]
\* what va_arg finds once the list is exhausted
NoArg ==
    [kind |-> "none", level |-> 0, name |-> <<>>, val |-> 0,
     method_name |-> <<>>, file |-> <<>>, line |-> 0]

ArgAt(lst, cur) == IF cur + 1 \in 1..Len(lst) THEN lst[cur + 1] ELSE NoArg

\* Reading an argument as a type it does not have is undefined: the value
\* read is any of these, or, where integers travel apart from structures
\* (in registers), the next int of the list.
GarbageInts == {3}
GarbageTexts == {<<"~">>, <<"~","~","~">>}

\* the values va_arg(list, int) can produce at cursor cur
IntReads(lst, cur) ==
    IF ArgAt(lst, cur).kind = "int" THEN {ArgAt(lst, cur).val}
    ELSE GarbageInts
         \cup {lst[i].val : i \in {j \in (cur + 1)..Len(lst) : lst[j].kind = "int"}}

\* ------------------------------------------------------------ libc pieces
Digit(d) == <<"0","1","2","3","4","5","6","7","8","9">>[d + 1]

RECURSIVE Dec(_)
\* the text of "%d" / "%ld"
Dec(n) ==
    IF n < 0 THEN <<"-">> \o Dec(0 - n)
    ELSE IF n < 10 THEN <<Digit(n)>>
    ELSE Dec(n \div 10) \o <<Digit(n % 10)>>

\* snprintf(dst, size, ...) of a text: writes at most size - 1 characters and
\* a NUL, nothing when size is 0, and returns the length the text would have
\* had.  size is a size_t computed as a pointer difference: a negative
\* difference wraps to a huge value, so nothing is cut.
Snprintf(size, text) ==
    [out |-> IF size = 0 THEN <<>>
             ELSE IF size < 0 THEN text
             ELSE SubSeq(text, 1, Min(Len(text), size - 1)),
     nul |-> size # 0,
     ret |-> Len(text),
     crash |-> FALSE]

\* the character at 0-based offset i of a C string, its terminator included
CharAt(t, i) == IF i < Len(t) THEN t[i + 1] ELSE NUL

\* strncmp(t + off, s, n) == 0
StrncmpEq(t, off, s, n) ==
    \A i \in 0..(n - 1) :
        \/ \E j \in 0..(i - 1) : CharAt(t, off + j) = NUL
        \/ CharAt(t, off + i) = CharAt(s, i)

\* strftime(dst, size, ...) of a text: the text and a NUL when both fit, else
\* it returns 0 and leaves the array indeterminate (untouched, or filled
\* with what fitted)
Strftime(size, text) ==
    IF size < 0 \/ Len(text) + 1 <= size
    THEN {[out |-> text, nul |-> TRUE, ret |-> Len(text), crash |-> FALSE]}
    ELSE {[out |-> <<>>, nul |-> FALSE, ret |-> 0, crash |-> FALSE],
          [out |-> SubSeq(text, 1, size), nul |-> FALSE, ret |-> 0,
           crash |-> FALSE]}

\* ------------------------------------------------------- format functions
getpid == 7

\* what localtime(time(NULL)) gives "%d/%m/%Y" and "%H:%M:%S"
Today == <<"0","1","/","1","1","/","2","0","2","6">>
Now == <<"1","2",":","0","0",":","0","0">>

Crashed == [out |-> <<>>, nul |-> FALSE, ret |-> 0, crash |-> TRUE]

hues_function_format_pid(size, arg) == {Snprintf(size, Dec(getpid))}

hues_function_format_level(size, arg) ==
    IF arg.kind = "level" THEN {Snprintf(size, arg.name)}
    ELSE {Snprintf(size, g) : g \in GarbageTexts} \cup {Crashed}

hues_function_format_date(size, arg) == Strftime(size, Today)

hues_function_format_time(size, arg) == Strftime(size, Now)

hues_function_format_function(size, arg) ==
    IF arg.kind = "loc" THEN {Snprintf(size, arg.method_name)}
    ELSE {Snprintf(size, g) : g \in GarbageTexts} \cup {Crashed}

hues_function_format_file(size, arg) ==
    IF arg.kind = "loc" THEN {Snprintf(size, arg.file)}
    ELSE {Snprintf(size, g) : g \in GarbageTexts} \cup {Crashed}

hues_function_format_line_number(size, arg) ==
    IF arg.kind = "loc" THEN {Snprintf(size, Dec(arg.line))}
    ELSE {Snprintf(size, Dec(g)) : g \in GarbageInts}

hues_function_format_full_code_location(size, arg) ==
    IF arg.kind = "loc"
    THEN {Snprintf(size, arg.method_name \o <<" ","@"," ">> \o arg.file
                          \o <<":">> \o Dec(arg.line))}
    ELSE {Snprintf(size, g) : g \in GarbageTexts} \cup {Crashed}

\* format_spec->format_function(buffptr, size, specifier, list): the set of
\* results the call can have
FormatFunction(fn, size, arg) ==
    CASE fn = "pid" -> hues_function_format_pid(size, arg)
      [] fn = "date" -> hues_function_format_date(size, arg)
      [] fn = "time" -> hues_function_format_time(size, arg)
      [] fn = "level" -> hues_function_format_level(size, arg)
      [] fn = "function" -> hues_function_format_function(size, arg)
      [] fn = "file" -> hues_function_format_file(size, arg)
      [] fn = "line_number" -> hues_function_format_line_number(size, arg)
      [] fn = "full_code_location" ->
            hues_function_format_full_code_location(size, arg)

\* the number of va_arg reads the format function makes
FormatConsumes(fn) == IF fn \in {"pid", "date", "time"} THEN 0 ELSE 1

\* ---------------------------------------------------------------- registry
\* hues_format** : NULL, or a NULL-terminated array of entries
NullFormats == [alloc |-> FALSE, entries |-> <<>>]
Formats(es) == [alloc |-> TRUE, entries |-> es]
Format(spec, fn) == [specifier |-> spec, format_function |-> fn]

\* format_array of hues_register_format_functions
DefaultFormats ==
    <<Format(<<"d">>, "date"), Format(<<"t">>, "time"),
      Format(<<"L">>, "level"), Format(<<"f">>, "function"),
      Format(<<"F">>, "file"), Format(<<"l">>, "line_number"),
      Format(<<"c">>, "full_code_location"), Format(<<"p">>, "pid")>>

\* ------------------------------------------------------------------ themes
\* hues_theme* : NULL, or a theme whose format array has one hues_level_format
\* per level
NullTheme == [alloc |-> FALSE, format |-> <<>>]
Theme(fmt) == [alloc |-> TRUE, format |-> fmt]

hues_hex_to_color(hex) ==
    [r |-> (hex \div 65536) % 256, g |-> (hex \div 256) % 256, b |-> hex % 256]

\* the table defined first under the name hues_theme_dark_foreground_colors
hues_theme_dark_foreground_colors ==
    <<\hFFFFFF, \hFFDF00, \h90EE90, \hFFA500, \hFF69B4, \hFFFF00, \hFFFFFF>>

\* the table defined second under the same name
hues_theme_dark_foreground_colors_2 ==
    <<\h6161ED, \h181818, \h181818, \h181818, \h181818, \hE60000, \hE60000>>

\* the theme hues_theme_from_hex(bg_hex, fg_hex) builds
ThemeFromHex(bg_hex, fg_hex) ==
    Theme([i \in 1..(HUES_LEVEL_UNKNOWN + 1) |->
             [level |-> i - 1,
              background_color |-> hues_hex_to_color(bg_hex[i]),
              foreground_color |-> hues_hex_to_color(fg_hex[i])]])

\* a theme a caller built for five of the six levels: no entry for CRITICAL
FiveLevelTheme ==
    Theme([i \in 1..(HUES_LEVEL_UNKNOWN + 1) |->
             [level |-> IF i - 1 = HUES_LEVEL_CRITICAL THEN HUES_LEVEL_UNKNOWN
                        ELSE i - 1,
              background_color |-> hues_hex_to_color(0),
              foreground_color |-> hues_hex_to_color(\h010203)]])

\* ------------------------------------------------------- escape sequences
ESC == "ESC"        \* the character \x1b

ESC_SEQ_BG(c) ==
    <<ESC,"[","4","8",";","2",";">> \o Dec(c.r) \o <<";">> \o Dec(c.g)
        \o <<";">> \o Dec(c.b) \o <<"m">>
ESC_SEQ_FG(c) ==
    <<ESC,"[","3","8",";","2",";">> \o Dec(c.r) \o <<";">> \o Dec(c.g)
        \o <<";">> \o Dec(c.b) \o <<"m">>
ESC_SEQ_RST == <<ESC,"[","0","m">>

\* the indices i with strncmp(format_ptr + 1, formats[i]->specifier, length) == 0
MatchesAt(fmts, t, fp, length) ==
    {i \in 1..Len(fmts) : StrncmpEq(t, fp + 1, fmts[i].specifier, length)}

SetMin(S) == CHOOSE x \in S : \A y \in S : x <= y
SetMax(S) == CHOOSE x \in S : \A y \in S : x >= y

\* the outer loop running from 1 up to max_spec_len instead
ProbedLength_ShortestFirst(S) == SetMin(S)

\* the length the outer loop stops at: it runs from max_spec_len down to 1
ProbedLength(S) == SetMax(S)

\* the inner loop without its break: the last matching entry stays
FirstEntry_NoBreak(S) == SetMax(S)

\* the inner loop breaks at the first matching entry
FirstEntry(S) == SetMin(S)

\* the two nested loops of the prefix branch: the entry found (0 when none)
\* and spec_len, which keeps its initial value when nothing matches
FindSpec(fmts, t, fp, initial_spec_len) ==
    LET hits == {l \in 1..max_spec_len : MatchesAt(fmts, t, fp, l) # {}}
    IN  IF hits = {} THEN [index |-> 0, spec_len |-> initial_spec_len]
        ELSE [index |-> FirstEntry(MatchesAt(fmts, t, fp, ProbedLength(hits))),
              spec_len |-> ProbedLength(hits)]

\* ------------------------------------------------------- native vsnprintf
BUFFER_SIZE == 96   \* #define BUFFER_SIZE 4096, scaled down

\* the '#' flag characters that follow the '%' of a conversion specification
RECURSIVE FlagsLen(_)
FlagsLen(f) == IF f # <<>> /\ Head(f) = "#" THEN 1 + FlagsLen(Tail(f)) ELSE 0

\* the texts one conversion character produces from the argument it reads;
\* {} when the C library has no such conversion and echoes the specification
ConvTexts(c, lst, cur) ==
    CASE c = "d" -> {Dec(n) : n \in IntReads(lst, cur)}
      [] c = "%" -> {<<"%">>}
      [] c = "a" -> GarbageTexts
      [] OTHER -> {}

\* conversions that only some C libraries have (%b came with C23)
OptionalConvs == {"b"}

\* the arguments a conversion character reads
ConvReads(c) == IF c = "%" THEN 0 ELSE 1

RECURSIVE Vsnprintf(_, _, _)
\* vsnprintf(format_result, BUFFER_SIZE, f, args): the results it can have,
\* ret < 0 when the format ends inside a conversion specification
Vsnprintf(f, lst, cur) ==
    IF f = <<>> THEN {[ret |-> 0, text |-> <<>>]}
    ELSE IF Head(f) # "%"
    THEN {[ret |-> IF r.ret < 0 THEN r.ret ELSE r.ret + 1,
           text |-> <<Head(f)>> \o r.text] : r \in Vsnprintf(Tail(f), lst, cur)}
    ELSE LET ci == 2 + FlagsLen(Tail(f))
         IN  IF ci > Len(f) THEN {[ret |-> 0 - 1, text |-> <<>>]}
             ELSE LET c == f[ci]
                      spec == SubSeq(f, 1, ci)
                      rest == SubSeq(f, ci + 1, Len(f))
                      heads == ConvTexts(c, lst, cur)
                               \cup (IF c \in OptionalConvs THEN GarbageTexts ELSE {})
                               \cup (IF ConvTexts(c, lst, cur) = {} THEN {spec} ELSE {})
                  IN  {[ret |-> IF r.ret < 0 THEN r.ret ELSE r.ret + Len(h),
                        text |-> h \o r.text] :
                           h \in heads,
                           r \in Vsnprintf(rest, lst, cur + ConvReads(c))}

\* strncpy(tempbuff, format_ptr, length + 1): the marker and up to `length`
\* characters after it, cut at the end of the template
Token(t, fp, length) == SubSeq(t, fp + 1, Min(fp + length + 1, Len(t)))

\* result >= 0 && (size_t)result < sizeof(format_result)
\*   && strcmp(format_result, tempbuff) != 0
ProbeAccepted(r, token) ==
    /\ r.ret >= 0
    /\ r.ret < BUFFER_SIZE
    /\ r.text # token

\* the candidate lengths probed from the longest down
ProbeOrder_LongestFirst == <<3, 2, 1>>

\* the order in which the candidate lengths are probed
ProbeOrder == <<1, 2, 3>>

\* spec_len left at the length of the last candidate probed
MarkerSpecLen_LastProbed == max_spec_len

\* size_t spec_len = 0 of the '%' branch: assigned only when a candidate is
\* accepted
MarkerSpecLen == 0

RECURSIVE ProbeFrom(_, _, _, _, _)
\* the probing loop from the k-th candidate on: the first accepted candidate
\* ends it; spec_len stays 0 when none is accepted
ProbeFrom(k, t, fp, lst, cur) ==
    IF k > Len(ProbeOrder)
    THEN {[spec_ok |-> FALSE, spec_len |-> MarkerSpecLen, text |-> <<>>]}
    ELSE UNION {
            IF ProbeAccepted(r, Token(t, fp, ProbeOrder[k]))
            THEN {[spec_ok |-> TRUE, spec_len |-> ProbeOrder[k], text |-> r.text]}
            ELSE ProbeFrom(k + 1, t, fp, lst, cur) :
            r \in Vsnprintf(Token(t, fp, ProbeOrder[k]), lst, cur)}

\* ------------------------------------------------------------------ state
VARIABLES
    hues_glob_configuration,  \* the process-wide configuration
    va_list_passing,  \* "alias" / "copy": how the build passes a va_list; "open" until it shows
    pc,            \* "idle", "scan", "done", "crash": the expansion call
    core,          \* "c": hues_format_cv_core, "p": hues_format_pv_core
    mem,           \* the bytes of the caller's array and of what lies behind it
    buffer,        \* offset of the buffer parameter in mem
    buffer_size,   \* the buffer_size parameter
    prefix,        \* the prefix parameter
    formats,       \* the formats parameter
    to_format,     \* the template
    format_ptr,    \* scan offset in the template
    buffptr,       \* offset of the output cursor in mem
    list,          \* the variadic arguments
    ap,            \* how many of them the list has moved past
    hiw,           \* highest offset of mem stored to in this call, -1 if none
    invoked,       \* the registry indices whose format function ran, in order
    reads,         \* the va_arg reads made on the list, in order
    result,        \* the value the call returned
    message,       \* the hues_message being logged
    log_pc,        \* where hues_log_message_v is, "none" outside a log call
    written,       \* size_t written
    stdout,        \* the characters printed to the console
    stderr,        \* the characters printed to the diagnostic stream
    heap,          \* the blocks malloc and realloc have handed out
    formats_ptr,   \* hues_glob_configuration.formats as a pointer into heap
    mutator,       \* the thread inside hues_configuration_add_format
    renderer,      \* the thread inside the registry loop of a render
    conversion     \* the colour converted last: hex value, hues_color, hex text

confVars == <<hues_glob_configuration, va_list_passing>>
frameVars == <<core, buffer, buffer_size, prefix, formats, to_format, list>>
histVars == <<hiw, invoked, reads, result>>
logVars == <<message, log_pc, written, stdout, stderr>>
thrVars == <<heap, formats_ptr, mutator, renderer>>
colorVars == <<conversion>>
vars == <<hues_glob_configuration, va_list_passing, pc, core, mem, buffer,
          buffer_size, prefix, formats, to_format, format_ptr, buffptr,
          list, ap, hiw, invoked, reads, result, message, log_pc, written,
          stdout, stderr, heap, formats_ptr, mutator, renderer,
          conversion>>

\* mem is a 0-based array kept as a sequence that grows with the highest
\* offset stored to; a byte never stored to is UNINIT
FreshMem == <<>>

Cell(m, i) == IF i >= 0 /\ i < Len(m) THEN m[i + 1] ELSE UNINIT

Store(m, at, bytes) ==
    IF bytes = <<>> THEN m
    ELSE [i \in 1..Max(Len(m), at + Len(bytes)) |->
            IF i - 1 >= at /\ i - 1 < at + Len(bytes) THEN bytes[i - at]
            ELSE IF i <= Len(m) THEN m[i] ELSE UNINIT]

RECURSIVE CStr(_, _)
\* the text a reader of the C string at offset i finds; it ends in UNINIT
\* when the reader runs into bytes that were never stored
CStr(m, i) ==
    IF i >= Len(m) THEN <<UNINIT>>
    ELSE IF m[i + 1] = NUL THEN <<>>
    ELSE <<m[i + 1]>> \o CStr(m, i + 1)

HighWater(h, at, n) == IF n = 0 THEN h ELSE Max(h, at + n - 1)

\* the static initializer of hues_glob_configuration
StaticConfiguration ==
    [minimum_level |-> HUES_LEVEL_DEBUG,
     header_format |-> <<"#","t","/","#","d"," ","#","v","\t">>,
     prefix |-> "#",
     theme |-> NullTheme,
     levels_count |-> HUES_LEVEL_UNKNOWN + 1,
     formats |-> NullFormats]

\* no message
NoMessage == [level |-> LevelArg(HUES_LEVEL_UNKNOWN), contents |-> <<>>]

\* no expansion call in flight
IdleFrame ==
    /\ pc = "idle"
    /\ core = "-"
    /\ mem = FreshMem
    /\ buffer = 0
    /\ buffer_size = 0
    /\ prefix = "#"
    /\ formats = NullFormats
    /\ to_format = <<>>
    /\ format_ptr = 0
    /\ buffptr = 0
    /\ list = <<>>
    /\ ap = 0
    /\ hiw = 0 - 1
    /\ invoked = <<>>
    /\ reads = <<>>
    /\ result = 0
    /\ message = NoMessage
    /\ log_pc = "none"
    /\ written = 0
    /\ stdout = <<>>
    /\ stderr = <<>>

\* a null pointer
NULL == 0

\* no thread is inside the library, nothing is allocated
IdleThreads ==
    /\ heap = <<>>
    /\ formats_ptr = NULL
    /\ mutator = [pc |-> "idle", format |-> "-", formats_count |-> 0,
                  added |-> <<>>]
    /\ renderer = [pc |-> "idle", formats |-> NULL, i |-> 0, fault |-> "none"]

\* no colour was converted yet
NoConversion ==
    [pc |-> "none", hex |-> 0, clr |-> [r |-> 0, g |-> 0, b |-> 0],
     text |-> <<>>]

Init ==
    /\ hues_glob_configuration = StaticConfiguration
    /\ va_list_passing = "open"
    /\ IdleFrame
    /\ IdleThreads
    /\ conversion = NoConversion

\* --------------------------------------------------------- configuration
\* the entries a caller registers
UserFormats ==
    {Format(<<"a">>, "pid"), Format(<<"a">>, "level"),
     Format(<<"a","b">>, "level")}

RegistryLen == IF hues_glob_configuration.formats.alloc
               THEN Len(hues_glob_configuration.formats.entries) ELSE 0

hues_configuration_add_format(format) ==
    /\ pc = "idle"
    /\ RegistryLen < MaxReg
    /\ hues_glob_configuration' =
          [hues_glob_configuration EXCEPT !.formats =
              IF ~ @.alloc THEN Formats(<<format>>)
              ELSE Formats(Append(@.entries, format))]
    /\ UNCHANGED <<va_list_passing, pc, core, mem, buffer, buffer_size, prefix,
                   formats, to_format, format_ptr, buffptr, list, ap,
                   histVars, logVars, thrVars, colorVars>>

AddFormat ==
    /\ pc = "idle"
    /\ \E f \in UserFormats : hues_configuration_add_format(f)

\* ------------------------------------------------------ expansion: entry
TemplateChars == {"#", "%", "a", "b"}

RECURSIVE SeqsUpTo(_, _)
SeqsUpTo(S, n) ==
    IF n = 0 THEN {<<>>}
    ELSE LET shorter == SeqsUpTo(S, n - 1)
         IN  shorter \cup {Append(q, c) : q \in shorter, c \in S}

\* every text of up to MaxTplLen characters, alone or behind one more
\* prefix or marker character
Templates ==
    LET texts == SeqsUpTo(TemplateChars, MaxTplLen)
    IN  texts \cup {<<e>> \o t : e \in {"#", "%"}, t \in texts}

ArgLists == {<<LevelArg(HUES_LEVEL_INFO), IntArg(7)>>}

\* the frame of hues_format_cv_core / hues_format_pv_core at its first line
Enter(which, at, size, tpl, args, cursor) ==
    /\ core' = which
    /\ buffer' = at
    /\ buffer_size' = size
    /\ prefix' = hues_glob_configuration.prefix
    /\ formats' = hues_glob_configuration.formats
    /\ to_format' = tpl
    /\ format_ptr' = 0
    /\ buffptr' = at
    /\ list' = args
    /\ ap' = cursor
    /\ hiw' = 0 - 1
    /\ invoked' = <<>>
    /\ result' = 0
    /\ pc' = "scan"

hues_format_c(size, tpl, args) ==
    /\ pc = "idle"
    /\ Enter("c", 0, size, tpl, args, 0)
    /\ UNCHANGED <<confVars, mem, reads, logVars, thrVars, colorVars>>

hues_format_p(size, tpl, args) ==
    /\ pc = "idle"
    /\ Enter("p", 0, size, tpl, args, 0)
    /\ UNCHANGED <<confVars, mem, reads, logVars, thrVars, colorVars>>

\* a call is made when no other is in flight
FormatC ==
    /\ pc = "idle"
    /\ \E size \in 1..MaxCap, tpl \in Templates, args \in ArgLists :
          hues_format_c(size, tpl, args)

FormatP ==
    /\ pc = "idle"
    /\ \E size \in 1..MaxCap, tpl \in Templates, args \in ArgLists :
          hues_format_p(size, tpl, args)

\* ------------------------------------------------------- expansion: scan
\* char* buffend: hues_format_pv_core reserves one byte for the terminator,
\* hues_format_cv_core does not
buffend == IF core = "p" THEN buffer + buffer_size - 1 ELSE buffer + buffer_size

\* while (format_ptr < format_end), at the character c
Scanning == pc = "scan" /\ format_ptr < Len(to_format)
Current == to_format[format_ptr + 1]

\* if (buffptr < buffend) { *buffptr = c; buffptr++; }
PutChar(c) ==
    IF buffptr < buffend
    THEN /\ mem' = Store(mem, buffptr, <<c>>)
         /\ hiw' = HighWater(hiw, buffptr, 1)
         /\ buffptr' = buffptr + 1
    ELSE UNCHANGED <<mem, hiw, buffptr>>

\* the scan stepping over the specifier and not over the character before it
Skip_SpecLenOnly(spec_len) == spec_len

\* format_ptr += spec_len + 1;
Skip(spec_len) == spec_len + 1

\* spec_len as declared before the matching loops
InitialSpecLen == IF core = "p" THEN 0 ELSE 1

Found == FindSpec(formats.entries, to_format, format_ptr, InitialSpecLen)

\* A va_list handed to a callee that reads it: whether the caller's list
\* moves too depends on the build (va_list is an array type on some ABIs, a
\* pointer or a structure on others).  The build is the same for the whole
\* run; the model settles it at the first call where it shows.
Passings(n_reads) ==
    IF n_reads = 0 \/ va_list_passing # "open" THEN {va_list_passing}
    ELSE {"alias", "copy"}

\* buffptr += format_spec->format_function(buffptr, buffend - buffptr, ...);
\* format_ptr += spec_len + 1;
PrefixSpecifier ==
    /\ Scanning
    /\ Current = prefix
    /\ formats.alloc
    /\ Found.index # 0
    /\ LET fn == formats.entries[Found.index].format_function
       IN  /\ \E r \in FormatFunction(fn, buffend - buffptr, ArgAt(list, ap)) :
             /\ mem' = Store(mem, buffptr,
                             r.out \o (IF r.nul THEN <<NUL>> ELSE <<>>))
             /\ hiw' = HighWater(hiw, buffptr,
                                 Len(r.out) + (IF r.nul THEN 1 ELSE 0))
             /\ buffptr' = buffptr + r.ret
             /\ pc' = IF r.crash THEN "crash" ELSE "scan"
           /\ \E how \in Passings(FormatConsumes(fn)) :
                /\ va_list_passing' = how
                /\ ap' = IF how = "alias" THEN ap + FormatConsumes(fn) ELSE ap
    /\ invoked' = Append(invoked, Found.index)
    /\ reads' = IF FormatConsumes(
                      formats.entries[Found.index].format_function) = 0
                THEN reads ELSE Append(reads, ap)
    /\ format_ptr' = format_ptr + Skip(Found.spec_len)
    /\ UNCHANGED <<hues_glob_configuration, frameVars, result, logVars, thrVars, colorVars>>

\* hues_format_pv_core: no entry matches, copy the prefix character
PrefixLiteralP ==
    /\ Scanning
    /\ core = "p"
    /\ Current = prefix
    /\ formats.alloc
    /\ Found.index = 0
    /\ PutChar(Current)
    /\ format_ptr' = format_ptr + 1
    /\ UNCHANGED <<confVars, frameVars, pc, ap, invoked, reads, result, logVars, thrVars, colorVars>>

\* hues_format_cv_core: no entry matches, copy spec_len characters and step
\* over spec_len + 1
PrefixLiteralC ==
    /\ Scanning
    /\ core = "c"
    /\ Current = prefix
    /\ formats.alloc
    /\ Found.index = 0
    /\ PutChar(Current)
    /\ format_ptr' = format_ptr + Skip(Found.spec_len)
    /\ UNCHANGED <<confVars, frameVars, pc, ap, invoked, reads, result, logVars, thrVars, colorVars>>

\* formats[i] with formats == NULL
PrefixNullRegistry ==
    /\ Scanning
    /\ Current = prefix
    /\ ~ formats.alloc
    /\ pc' = "crash"
    /\ UNCHANGED <<confVars, frameVars, mem, format_ptr, buffptr, ap, histVars,
                   logVars, thrVars, colorVars>>

IsMarker == core = "p" /\ Current # prefix /\ Current = "%"

\* a candidate length was accepted: copy what fits of the formatted result,
\* va_arg(list, void*), step over the token
PercentConversion ==
    /\ Scanning
    /\ IsMarker
    /\ \E o \in ProbeFrom(1, to_format, format_ptr, list, ap) :
          /\ o.spec_ok
          /\ LET n == Min(Len(o.text), Max(0, buffend - buffptr))
             IN  /\ mem' = Store(mem, buffptr, SubSeq(o.text, 1, n))
                 /\ hiw' = HighWater(hiw, buffptr, n)
                 /\ buffptr' = buffptr + n
          /\ format_ptr' = format_ptr + Skip(o.spec_len)
    /\ ap' = ap + 1
    /\ reads' = Append(reads, ap)
    /\ UNCHANGED <<confVars, frameVars, pc, invoked, result, logVars, thrVars, colorVars>>

\* no candidate length was accepted: the loop copies format_ptr[i] for
\* i <= spec_len while there is room, and the scan steps over spec_len + 1
\* characters; spec_len is still 0
PercentLiteral ==
    /\ Scanning
    /\ IsMarker
    /\ \E o \in ProbeFrom(1, to_format, format_ptr, list, ap) :
          /\ ~ o.spec_ok
          /\ LET n == Min(o.spec_len + 1, Max(0, buffend - buffptr))
                 span == [i \in 1..n |-> CharAt(to_format, format_ptr + i - 1)]
             IN  /\ mem' = Store(mem, buffptr, span)
                 /\ hiw' = HighWater(hiw, buffptr, n)
                 /\ buffptr' = buffptr + n
          /\ format_ptr' = format_ptr + Skip(o.spec_len)
    /\ UNCHANGED <<confVars, frameVars, pc, ap, invoked, reads, result, logVars, thrVars, colorVars>>

\* any other character is copied
Literal ==
    /\ Scanning
    /\ Current # prefix
    /\ ~ IsMarker
    /\ PutChar(Current)
    /\ format_ptr' = format_ptr + 1
    /\ UNCHANGED <<confVars, frameVars, pc, ap, invoked, reads, result, logVars, thrVars, colorVars>>

\* hues_format_pv_core after the loop: *buffptr = '\0'; return buffptr - buffer;
TerminateP ==
    /\ pc = "scan"
    /\ core = "p"
    /\ format_ptr >= Len(to_format)
    /\ mem' = Store(mem, buffptr, <<NUL>>)
    /\ hiw' = HighWater(hiw, buffptr, 1)
    /\ result' = buffptr - buffer
    /\ pc' = "done"
    /\ UNCHANGED <<confVars, frameVars, format_ptr, buffptr, ap, invoked, reads,
                   logVars, thrVars, colorVars>>

\* hues_format_cv_core after the loop:
\* if (buffptr < buffend) *buffptr = '\0'; return buffptr - buffer;
TerminateC ==
    /\ pc = "scan"
    /\ core = "c"
    /\ format_ptr >= Len(to_format)
    /\ IF buffptr < buffend
       THEN /\ mem' = Store(mem, buffptr, <<NUL>>)
            /\ hiw' = HighWater(hiw, buffptr, 1)
       ELSE UNCHANGED <<mem, hiw>>
    /\ result' = buffptr - buffer
    /\ pc' = "done"
    /\ UNCHANGED <<confVars, frameVars, format_ptr, buffptr, ap, invoked, reads,
                   logVars, thrVars, colorVars>>

\* ---------------------------------------------------------------- setters
callVars == <<pc, core, mem, buffer, buffer_size, prefix, formats, to_format,
              format_ptr, buffptr, list, ap>>

hues_configuration_set_minimum_level(minimum_level) ==
    /\ pc = "idle"
    /\ hues_glob_configuration' =
          [hues_glob_configuration EXCEPT !.minimum_level = minimum_level]
    /\ UNCHANGED <<va_list_passing, callVars, histVars, logVars, thrVars, colorVars>>

hues_configuration_set_level_format(header_format) ==
    /\ pc = "idle"
    /\ hues_glob_configuration' =
          [hues_glob_configuration EXCEPT !.header_format = header_format]
    /\ UNCHANGED <<va_list_passing, callVars, histVars, logVars, thrVars, colorVars>>

hues_configuration_set_theme(theme) ==
    /\ pc = "idle"
    /\ hues_glob_configuration' =
          [hues_glob_configuration EXCEPT !.theme = theme]
    /\ UNCHANGED <<va_list_passing, callVars, histVars, logVars, thrVars, colorVars>>

\* the header hues_initialize installs
DefaultHeader ==
    <<"(","#","d","-","#","t",")"," ","[","#","L"," ","i","n"," ","#","c",
      "]"," "," ">>

\* hues_register_format_functions: malloc((levels_count + 1) * sizeof(hues_format*))
RegisterSlots == (HUES_LEVEL_UNKNOWN + 1) + 1

\* size_t formats_count = 8
default_formats_count == 8

\* the indices of formats it stores to: formats[i] for i < formats_count,
\* then formats[formats_count] = NULL
RegisterStores == 0..default_formats_count

\* a store behind the last slot of the block
RegisterOverflows == \E i \in RegisterStores : i >= RegisterSlots

\* hues_register_format_functions: the registry it installs
hues_register_format_functions == Formats(DefaultFormats)

\* hues_theme_use_dark: both parameters are hues_theme_dark_foreground_colors,
\* a name the file defines twice; the build keeps one of the two tables
hues_theme_use_dark ==
    {ThemeFromHex(table, table) :
        table \in {hues_theme_dark_foreground_colors,
                   hues_theme_dark_foreground_colors_2}}

\* hues_register_format_functions stores its NULL terminator one slot behind
\* the array it allocated: the heap survives it or the process dies
hues_initialize ==
    /\ pc = "idle"
    /\ \E theme \in hues_theme_use_dark :
          hues_glob_configuration' =
             [hues_glob_configuration EXCEPT
                 !.minimum_level = HUES_LEVEL_TRACE,
                 !.prefix = "#",
                 !.header_format = DefaultHeader,
                 !.formats = hues_register_format_functions,
                 !.theme = theme]
    /\ \E intact \in (IF RegisterOverflows THEN BOOLEAN ELSE {TRUE}) :
          pc' = IF intact THEN "idle" ELSE "crash"
    /\ UNCHANGED <<va_list_passing, core, mem, buffer, buffer_size, prefix,
                   formats, to_format, format_ptr, buffptr, list, ap,
                   histVars, logVars, thrVars, colorVars>>

Levels == HUES_LEVEL_TRACE..HUES_LEVEL_UNKNOWN

\* a header as long as the render buffer
LongHeader == [i \in 1..BUFFER_SIZE |-> "h"]

\* the headers a caller installs
HeaderFormats == {<<"#","L">>, StaticConfiguration.header_format, LongHeader}

\* the themes a caller installs
UserThemes == {NullTheme, FiveLevelTheme}

SetMinimumLevel == \E l \in Levels : hues_configuration_set_minimum_level(l)
SetLevelFormat == \E h \in HeaderFormats : hues_configuration_set_level_format(h)
SetTheme == \E t \in UserThemes : hues_configuration_set_theme(t)

\* --------------------------------------------------------------- renderer
\* size_t arithmetic is modulo 2^64; the model's modulus is far above every
\* offset it reaches
SIZE_MODULUS == 2^30
SizeT(n) == n % SIZE_MODULUS

\* "No color configuration found for level %d\n"
NoColorConfiguration(level) ==
    <<"N","o"," ","c","o","l","o","r"," ","c","o","n","f","i","g","u","r",
      "a","t","i","o","n"," ","f","o","u","n","d"," ","f","o","r"," ",
      "l","e","v","e","l"," ">> \o Dec(level) \o <<NEWLINE>>

\* what an indeterminate hues_level_format* can point at
StaleColor == [r |-> 9, g |-> 9, b |-> 9]

\* theme_level after the lookup loop.  The pointer is declared without an
\* initializer: when no entry of the theme has the level it is indeterminate,
\* so the test that follows finds it null, or not null and then wild, or
\* pointing at stale bytes.
ThemeLevel(theme, level) ==
    LET hits == {i \in 1..hues_glob_configuration.levels_count :
                    theme.format[i].level = level}
    IN  IF hits # {}
        THEN {[kind |-> "entry",
               background_color |-> theme.format[SetMin(hits)].background_color,
               foreground_color |-> theme.format[SetMin(hits)].foreground_color]}
        ELSE {[kind |-> k, background_color |-> StaleColor,
               foreground_color |-> StaleColor] : k \in {"null", "wild", "stale"}}

\* message->level.level < hues_glob_configuration.minimum_level
BelowMinimum(level) == level < hues_glob_configuration.minimum_level

\* hues_log_message_v leaves before any expansion
Leave(p, lp, err) ==
    /\ pc' = p
    /\ log_pc' = lp
    /\ stderr' = err
    /\ UNCHANGED <<core, mem, buffer, buffer_size, prefix, formats, to_format,
                   format_ptr, buffptr, hiw, invoked, result, written>>

\* hues_log(&message, ...) up to the expansion of the header
hues_log(msg, args) ==
    /\ pc = "idle"
    /\ message' = msg
    /\ list' = args
    /\ ap' = 0
    /\ reads' = <<>>
    /\ stdout' = <<>>
    /\ IF BelowMinimum(msg.level.level)
       THEN Leave("done", "filtered", <<>>)
       ELSE IF ~ hues_glob_configuration.theme.alloc
       THEN Leave("crash", "lookup", <<>>)
       ELSE \E theme_level \in ThemeLevel(hues_glob_configuration.theme,
                                         msg.level.level) :
              CASE theme_level.kind = "null" ->
                     Leave("done", "error", NoColorConfiguration(msg.level.level))
                [] theme_level.kind = "wild" -> Leave("crash", "lookup", <<>>)
                [] OTHER ->
                     LET bg == Snprintf(BUFFER_SIZE,
                                        ESC_SEQ_BG(theme_level.background_color))
                         fg == Snprintf(BUFFER_SIZE,
                                        ESC_SEQ_FG(theme_level.foreground_color))
                     IN  /\ mem' = Store(Store(FreshMem, 0, bg.out \o <<NUL>>),
                                         bg.ret, fg.out \o <<NUL>>)
                         /\ written' = bg.ret + fg.ret
                         /\ Enter("p", bg.ret + fg.ret, BUFFER_SIZE,
                                  hues_glob_configuration.header_format, args, 0)
                         /\ log_pc' = "header"
                         /\ stderr' = <<>>
    /\ UNCHANGED <<confVars, thrVars, colorVars>>

\* trace(...) .. critical(...): the macro passes the level and CODE_LOC ahead
\* of the caller's arguments
Severity(l, message_format, args) ==
    hues_log([level |-> LevelArg(l), contents |-> message_format],
             <<LevelArg(l), LocArg>> \o args)

\* the header is expanded: written += ...; the body is expanded behind it with
\* the same va_list
HeaderExpanded ==
    /\ log_pc = "header"
    /\ pc = "done"
    /\ written' = written + result
    /\ \E how \in (IF va_list_passing = "open" /\ ap > 0
                   THEN {"alias", "copy"} ELSE {va_list_passing}) :
          /\ va_list_passing' = how
          /\ Enter("p", written + result,
                   SizeT(BUFFER_SIZE - (written + result)),
                   message.contents, list, IF how = "alias" THEN ap ELSE 0)
    /\ log_pc' = "body"
    /\ UNCHANGED <<hues_glob_configuration, mem, reads, message, stdout, stderr,
                   thrVars, colorVars>>

\* the body is expanded: written += ...; the reset sequence goes behind the
\* content, or onto its final newline, and the buffer is printed
BodyExpanded ==
    /\ log_pc = "body"
    /\ pc = "done"
    /\ LET w == written + result
           index == IF Cell(mem, w - 1) = NEWLINE THEN 0 - 1 ELSE 0
           rst == Snprintf(SizeT(BUFFER_SIZE - w - index), ESC_SEQ_RST)
           bytes == rst.out \o (IF rst.nul THEN <<NUL>> ELSE <<>>)
       IN  /\ mem' = Store(mem, w + index, bytes)
           /\ hiw' = HighWater(hiw, w + index, Len(bytes))
           /\ written' = w + rst.ret
           /\ stdout' = CStr(Store(mem, w + index, bytes), 0)
                           \o (IF index = 0 - 1 THEN <<NEWLINE>> ELSE <<>>)
    /\ log_pc' = "emitted"
    /\ UNCHANGED <<confVars, frameVars, pc, format_ptr, buffptr, ap, invoked,
                   reads, result, message, stderr, thrVars, colorVars>>

\* a body as long as the render buffer
FillFormat == [i \in 1..BUFFER_SIZE |-> "x"]

MessageFormats == {<<"%","d">>, <<"%",NEWLINE>>, FillFormat}

Log ==
    /\ pc = "idle"
    /\ \E l \in HUES_LEVEL_TRACE..HUES_LEVEL_CRITICAL,
          message_format \in MessageFormats :
          Severity(l, message_format, <<IntArg(7)>>)

\* ------------------------------------------------- two threads, one registry
\* The registry as the array of pointers it is: a heap block of slots.  A
\* slot holds a hues_format*, NULL, or what malloc left there.
SetSlot(f) == [state |-> "set", format |-> f]
NullSlot == [state |-> "null", format |-> Format(<<>>, "-")]
UninitSlot == [state |-> "uninit", format |-> Format(<<>>, "-")]

Block(slots) == [freed |-> FALSE, slots |-> slots]

\* everything of the model but the threads
seqVars == <<hues_glob_configuration, va_list_passing, pc, core, mem, buffer,
             buffer_size, prefix, formats, to_format, format_ptr, buffptr,
             list, ap, hiw, invoked, reads, result, message, log_pc, written,
             stdout, stderr>>

\* for (i = 0; formats[i] != NULL; i++) formats_count++;
CountedFormats(slots) ==
    SetMin({i \in 0..Len(slots) :
               i = Len(slots) \/ slots[i + 1].state # "set"})

\* hues_configuration_add_format(format) is entered: the NULL test, and the
\* counting loop when the registry is set
AddEnter(format) ==
    /\ mutator.pc = "idle"
    /\ Len(mutator.added) < MaxReg
    /\ mutator' = [pc |-> IF formats_ptr = NULL THEN "malloc" ELSE "realloc",
                   format |-> format,
                   formats_count |-> IF formats_ptr = NULL THEN 0
                                     ELSE CountedFormats(heap[formats_ptr].slots),
                   added |-> Append(mutator.added, format)]
    /\ UNCHANGED <<seqVars, colorVars, heap, formats_ptr, renderer>>

\* hues_glob_configuration.formats = malloc(sizeof(hues_format*) * 2);
AddMalloc ==
    /\ mutator.pc = "malloc"
    /\ heap' = Append(heap, Block(<<UninitSlot, UninitSlot>>))
    /\ formats_ptr' = Len(heap) + 1
    /\ mutator' = [mutator EXCEPT !.pc = "store"]
    /\ UNCHANGED <<seqVars, colorVars, renderer>>

\* hues_glob_configuration.formats = realloc(..., formats_count + 2): the block
\* grows where it is, or its slots move to a new block and the old one is
\* freed
AddRealloc ==
    /\ mutator.pc = "realloc"
    /\ LET grown == heap[formats_ptr].slots \o <<UninitSlot>>
       IN  \E moved \in BOOLEAN :
              IF moved
              THEN /\ heap' = Append([heap EXCEPT ![formats_ptr].freed = TRUE],
                                     Block(grown))
                   /\ formats_ptr' = Len(heap) + 1
              ELSE /\ heap' = [heap EXCEPT ![formats_ptr].slots = grown]
                   /\ formats_ptr' = formats_ptr
    /\ mutator' = [mutator EXCEPT !.pc = "store"]
    /\ UNCHANGED <<seqVars, colorVars, renderer>>

\* hues_glob_configuration.formats[formats_count] = format;
AddStore ==
    /\ mutator.pc = "store"
    /\ heap' = [heap EXCEPT ![formats_ptr].slots[mutator.formats_count + 1] =
                   SetSlot(mutator.format)]
    /\ mutator' = [mutator EXCEPT !.pc = "terminate"]
    /\ UNCHANGED <<seqVars, colorVars, formats_ptr, renderer>>

\* the terminator stored over the new entry
TerminatorIndex_AtCount(formats_count) == formats_count

\* the 0-based slot of formats[formats_count + 1] = NULL
TerminatorIndex(formats_count) == formats_count + 1

\* hues_glob_configuration.formats[formats_count + 1] = NULL; and return
AddTerminate ==
    /\ mutator.pc = "terminate"
    /\ heap' = [heap EXCEPT
                   ![formats_ptr].slots[TerminatorIndex(mutator.formats_count) + 1] =
                      NullSlot]
    /\ mutator' = [mutator EXCEPT !.pc = "idle"]
    /\ UNCHANGED <<seqVars, colorVars, formats_ptr, renderer>>

\* a render hands hues_glob_configuration.formats to hues_format_pv_core,
\* which meets a prefix character and starts its loop over the registry
RenderEnter ==
    /\ renderer.pc = "idle"
    /\ renderer' = IF formats_ptr = NULL
                   THEN [renderer EXCEPT !.pc = "fault", !.fault = "null"]
                   ELSE [pc |-> "loop", formats |-> formats_ptr, i |-> 0,
                         fault |-> "none"]
    /\ UNCHANGED <<seqVars, colorVars, heap, formats_ptr, mutator>>

\* formats[i] != NULL, one read of one slot through the pointer the render
\* was given
RenderRead ==
    /\ renderer.pc = "loop"
    /\ LET block == heap[renderer.formats]
           slot == block.slots[renderer.i + 1]
       IN  renderer' =
              IF block.freed
              THEN [renderer EXCEPT !.pc = "fault", !.fault = "freed"]
              ELSE IF slot.state = "uninit"
              THEN [renderer EXCEPT !.pc = "fault", !.fault = "uninit"]
              ELSE IF slot.state = "null"
              THEN [renderer EXCEPT !.pc = "idle"]
              ELSE [renderer EXCEPT !.i = @ + 1]
    /\ UNCHANGED <<seqVars, colorVars, heap, formats_ptr, mutator>>

AddFormatThread == \E f \in UserFormats : AddEnter(f)

\* ------------------------------------------------------ colour conversion
\* the component values the conversions are run on
ColorSamples == {0, 1, 15, 16, 255}

\* the 24-bit values built from them
HexValues ==
    {r * 65536 + g * 256 + b : r \in ColorSamples, g \in ColorSamples,
                               b \in ColorSamples}

HexDigit(d) ==
    <<"0","1","2","3","4","5","6","7","8","9","a","b","c","d","e","f">>[d + 1]

RECURSIVE HexText(_)
\* what %x prints for n
HexText(n) ==
    IF n < 16 THEN <<HexDigit(n)>>
    ELSE Append(HexText(n \div 16), HexDigit(n % 16))

\* what %x prints: no zero padding
Pad02_None(t) == t

\* the 02 of %02x: zero padding up to two characters
Pad02(t) == IF Len(t) < 2 THEN <<"0">> \o t ELSE t

\* sprintf(hex, "#%02x%02x%02x", clr->r, clr->g, clr->b)
hues_color_to_hex(clr) ==
    <<"#">> \o Pad02(HexText(clr.r)) \o Pad02(HexText(clr.g))
            \o Pad02(HexText(clr.b))

\* clr = hues_hex_to_color(hex)
HexToColor ==
    /\ \E v \in HexValues :
          conversion' = [pc |-> "color", hex |-> v,
                         clr |-> hues_hex_to_color(v), text |-> <<>>]
    /\ UNCHANGED <<seqVars, thrVars>>

\* hues_color_to_hex(text, &clr) on the colour converted last
ColorToHex ==
    /\ conversion.pc = "color"
    /\ conversion' = [conversion EXCEPT !.pc = "text",
                                        !.text = hues_color_to_hex(conversion.clr)]
    /\ UNCHANGED <<seqVars, thrVars>>

NextColor ==
    \/ HexToColor
    \/ ColorToHex

\* the two colour conversions on every sample value
SpecColor == Init /\ [][NextColor]_vars

\* ------------------------------------------------- configuration surface
\* a setter that also puts the minimum level back to its static value
hues_configuration_set_prefix_ResetsLevel(new_prefix) ==
    /\ pc = "idle"
    /\ hues_glob_configuration' =
          [hues_glob_configuration EXCEPT
              !.prefix = new_prefix,
              !.minimum_level = StaticConfiguration.minimum_level]
    /\ UNCHANGED <<va_list_passing, callVars, histVars, logVars, thrVars, colorVars>>

hues_configuration_set_prefix(new_prefix) ==
    /\ pc = "idle"
    /\ hues_glob_configuration' =
          [hues_glob_configuration EXCEPT !.prefix = new_prefix]
    /\ UNCHANGED <<va_list_passing, callVars, histVars, logVars, thrVars, colorVars>>

hues_configuration_set_formats(new_formats) ==
    /\ pc = "idle"
    /\ hues_glob_configuration' =
          [hues_glob_configuration EXCEPT !.formats = new_formats]
    /\ UNCHANGED <<va_list_passing, callVars, histVars, logVars, thrVars, colorVars>>

hues_configuration_get_level_format == hues_glob_configuration.header_format
hues_configuration_get_minimum_level == hues_glob_configuration.minimum_level
hues_configuration_get_prefix == hues_glob_configuration.prefix
hues_configuration_get_theme == hues_glob_configuration.theme
hues_configuration_get_formats == hues_glob_configuration.formats

\* the prefix characters a caller installs
Prefixes == {"#", "@"}

\* the registries a caller installs
UserRegistries ==
    {NullFormats, Formats(DefaultFormats), Formats(<<Format(<<"a">>, "pid")>>),
     Formats(<<Format(<<"a","b">>, "level")>>)}

SetPrefix == \E c \in Prefixes : hues_configuration_set_prefix(c)
SetFormats == \E r \in UserRegistries : hues_configuration_set_formats(r)

NextConfig ==
    \/ SetMinimumLevel
    \/ SetLevelFormat
    \/ SetPrefix
    \/ SetTheme
    \/ SetFormats

\* the five setters in every order
SpecConfig == Init /\ [][NextConfig]_vars

Next ==
    \/ AddFormat
    \/ FormatC
    \/ FormatP
    \/ PrefixSpecifier
    \/ PrefixLiteralP
    \/ PrefixLiteralC
    \/ PrefixNullRegistry
    \/ PercentConversion
    \/ PercentLiteral
    \/ Literal
    \/ TerminateP
    \/ TerminateC

Spec == Init /\ [][Next]_vars

\* one iteration of the scan loop, or the lines behind it
ScanStep ==
    \/ PrefixSpecifier
    \/ PrefixLiteralP
    \/ PrefixLiteralC
    \/ PrefixNullRegistry
    \/ PercentConversion
    \/ PercentLiteral
    \/ Literal
    \/ TerminateP
    \/ TerminateC

\* the templates of the calls whose end is checked
LiveTemplates == SeqsUpTo(TemplateChars, MaxTplLen)

LiveFormatC ==
    /\ pc = "idle"
    /\ \E size \in 1..MaxCap, tpl \in LiveTemplates, args \in ArgLists :
          hues_format_c(size, tpl, args)

LiveFormatP ==
    /\ pc = "idle"
    /\ \E size \in 1..MaxCap, tpl \in LiveTemplates, args \in ArgLists :
          hues_format_p(size, tpl, args)

\* a registry is installed, or none, and one call is made
NextLive ==
    \/ SetFormats
    \/ LiveFormatC
    \/ LiveFormatP
    \/ ScanStep

\* a call that has begun keeps running: the code is sequential and waits for
\* nothing
SpecLive == Init /\ [][NextLive]_vars /\ WF_vars(ScanStep)

\* the renderer under every configuration the setters and hues_initialize
\* reach
NextRender ==
    \/ SetMinimumLevel
    \/ SetLevelFormat
    \/ SetTheme
    \/ hues_initialize
    \/ Log
    \/ PrefixSpecifier
    \/ PrefixLiteralP
    \/ PrefixNullRegistry
    \/ PercentConversion
    \/ PercentLiteral
    \/ Literal
    \/ TerminateP
    \/ HeaderExpanded
    \/ BodyExpanded

SpecRender == Init /\ [][NextRender]_vars

\* one thread registers formats while another renders, with no lock: every
\* interleaving of their steps
NextThreads ==
    \/ AddFormatThread
    \/ AddMalloc
    \/ AddRealloc
    \/ AddStore
    \/ AddTerminate
    \/ RenderEnter
    \/ RenderRead

SpecThreads == Init /\ [][NextThreads]_vars

\* ============================================================== properties
\* the first n bytes of the buffer
Bytes(m, at, n) == [i \in 1..n |-> Cell(m, at + i - 1)]

Returned == pc = "done"

\* the template has neither the prefix character nor the '%' marker
Plain(t) == \A i \in 1..Len(t) : t[i] # prefix /\ t[i] # "%"

\* C1: hues_format_p never stores at a buffer offset >= capacity, whatever
\* the template, the registry and the arguments, also when a format function
\* returns more than the room that was left.
C1_NoStoreBeyondCapacity ==
    core = "p" => hiw < buffer + buffer_size

\* C2: once hues_format_c or hues_format_p has returned, the buffer holds a
\* NUL at an offset below its capacity.
C2_TerminatedInsideBuffer ==
    Returned => \E i \in 0..(buffer_size - 1) : Cell(mem, buffer + i) = NUL

\* C3: the length hues_format_c and hues_format_p return never exceeds
\* capacity - 1.
C3_ReturnedLengthBelowCapacity ==
    Returned => result <= buffer_size - 1

\* C4: a template without prefix and '%' expands to its first
\* min(length, capacity - 1) characters, terminated, and nothing else.
C4_PlainTemplateCopied ==
    (Returned /\ Plain(to_format)) =>
        LET n == Min(Len(to_format), buffer_size - 1)
        IN  /\ result = n
            /\ Bytes(mem, buffer, n) = SubSeq(to_format, 1, n)
            /\ Cell(mem, buffer + n) = NUL
            /\ hiw = buffer + n

\* the call expanded the template made of the prefix and the text of the
\* k-th registry entry, with room for all the format function produces
SoleSpecifier(k) ==
    /\ Returned
    /\ formats.alloc
    /\ k \in 1..Len(formats.entries)
    /\ to_format = <<prefix>> \o formats.entries[k].specifier
    /\ \A r \in FormatFunction(formats.entries[k].format_function,
                               buffend - buffer, ArgAt(list, 0)) :
          ~ r.crash /\ r.ret < buffend - buffer

\* the k-th entry's format function ran once, and the buffer holds its output
OnlyOutputOf(k) ==
    /\ invoked = <<k>>
    /\ \E r \in FormatFunction(formats.entries[k].format_function,
                               buffend - buffer, ArgAt(list, 0)) :
          /\ CStr(mem, buffer) = r.out
          /\ result = Len(r.out)

\* no earlier entry has the text of the k-th entry
FirstWithItsText(k) ==
    \A j \in 1..(k - 1) :
        formats.entries[j].specifier # formats.entries[k].specifier

\* C5 as stated: for every registry and every registered specifier s, the
\* template prefix + s.text runs s's format function once and yields exactly
\* its output.
C5_EverySpecifierResolvesToItself ==
    \A k \in 1..MaxReg + 1 : SoleSpecifier(k) => OnlyOutputOf(k)

\* C5 amended: the same for every registered specifier whose text no earlier
\* entry of the registry has.
C5_FirstOfATextResolvesToItself ==
    \A k \in 1..MaxReg + 1 :
        (SoleSpecifier(k) /\ FirstWithItsText(k)) => OnlyOutputOf(k)

\* C5 witness: "a" registered twice, the template "#a" ran the first entry
C5_Witness ==
    /\ SoleSpecifier(1)
    /\ Len(formats.entries) = 2
    /\ formats.entries[2].specifier = formats.entries[1].specifier
    /\ formats.entries[2].format_function # formats.entries[1].format_function
    /\ OnlyOutputOf(1)

HasText(txt) == \E i \in 1..Len(formats.entries) : formats.entries[i].specifier = txt

\* the template begins with the prefix followed by "ab", both "a" and "ab"
\* are registered and no longer registered text begins with "ab"
LongestIsAB ==
    /\ pc # "idle"
    /\ formats.alloc
    /\ HasText(<<"a">>)
    /\ HasText(<<"a","b">>)
    /\ Len(to_format) >= 3
    /\ SubSeq(to_format, 1, 3) = <<prefix, "a", "b">>
    /\ \A i \in 1..Len(formats.entries) :
          LET sp == formats.entries[i].specifier
          IN  Len(sp) > 2 => SubSeq(sp, 1, 2) # <<"a","b">>

\* C6: with "a" and "ab" registered in either order, prefix + "ab", alone or
\* followed by more text, runs the "ab" format function: the first step of
\* the scan runs an entry whose text is "ab" and takes the "b" with it.
C6_LongestMatchFirst ==
    (LongestIsAB /\ format_ptr > 0) =>
        /\ invoked # <<>>
        /\ formats.entries[invoked[1]].specifier = <<"a","b">>
        /\ format_ptr >= 3

\* C6 witness: "a" registered before "ab", the template "#aba" ran "ab" and
\* then copied the "a" that follows
C6_Witness ==
    /\ Returned
    /\ LongestIsAB
    /\ to_format = <<"#","a","b","a">>
    /\ formats.entries[1].specifier = <<"a">>
    /\ invoked = <<2>>

\* ------------------------------------------------------ renderer properties
Last(s) == s[Len(s)]

EndsWith(s, t) ==
    Len(s) >= Len(t) /\ SubSeq(s, Len(s) - Len(t) + 1, Len(s)) = t

Contains(s, t) ==
    \E i \in 0..(Len(s) - Len(t)) : SubSeq(s, i + 1, i + Len(t)) = t

Emitted == log_pc = "emitted"

\* the log call is over: it returned or the process died in it
LogEnded ==
    \/ log_pc \in {"filtered", "error", "emitted"}
    \/ log_pc # "none" /\ pc = "crash"

\* a severity entry point was called with one integer, the header is "#L",
\* the body is "%d" and the registry is the default one
HeaderLBodyD ==
    /\ log_pc # "none"
    /\ hues_glob_configuration.header_format = <<"#","L">>
    /\ hues_glob_configuration.formats = Formats(DefaultFormats)
    /\ message.contents = <<"%","d">>
    /\ Len(list) = 3
    /\ list[3].kind = "int"

\* C7: with the header "#L" and the body "%d", called through a severity
\* entry point with one integer, the header takes none of the caller's
\* arguments, the body's %d reads the integer, and the output has the
\* severity name followed by the integer's decimal text.
C7_IntegerReachesTheBody ==
    (HeaderLBodyD /\ Emitted) =>
        /\ reads # <<>>
        /\ reads[Len(reads)] = 2
        /\ Contains(stdout, message.level.name \o Dec(list[3].val))

\* C8: a log call below the minimum level prints nothing and reads no
\* argument, under every configuration; a call at or above it is rendered.
C8_LevelFilter ==
    LogEnded =>
        IF message.level.level < hues_glob_configuration.minimum_level
        THEN /\ log_pc = "filtered"
             /\ stdout = <<>>
             /\ stderr = <<>>
             /\ reads = <<>>
             /\ ap = 0
        ELSE /\ pc # "crash"
             /\ Emitted

\* the bytes the two escapes, the header and the body left in the render
\* buffer, up to offset w
Rendered(w) == [i \in 1..w |-> Cell(mem, i - 1)]

\* C9: when the rendered content ends in a newline the emitted text has the
\* reset sequence right before that newline and nothing behind it; otherwise
\* the reset sequence is the last thing emitted.
C9_ResetBeforeFinalNewline ==
    [][(log_pc = "body" /\ log_pc' = "emitted") =>
          LET content == Rendered(written + result)
          IN  IF Last(content) = NEWLINE
              THEN stdout' = SubSeq(content, 1, Len(content) - 1)
                                \o ESC_SEQ_RST \o <<NEWLINE>>
              ELSE stdout' = content \o ESC_SEQ_RST]_vars

\* the theme is set and none of its entries has the level of the message
MissingEntry ==
    /\ hues_glob_configuration.theme.alloc
    /\ \A i \in 1..hues_glob_configuration.levels_count :
          hues_glob_configuration.theme.format[i].level # message.level.level

\* C10: a message that passes the level filter under a theme without an
\* entry for its severity is reported on the diagnostic stream and nothing
\* goes to the console.
C10_MissingThemeEntryIsReported ==
    (/\ log_pc # "none"
     /\ message.level.level >= hues_glob_configuration.minimum_level
     /\ MissingEntry) =>
        /\ log_pc = "error"
        /\ pc = "done"
        /\ stderr = NoColorConfiguration(message.level.level)
        /\ stdout = <<>>

\* C21: the header expansion and the body expansion of one render use one
\* forward-only argument cursor: when the header consumed N arguments the
\* body starts at argument N + 1, and across both expansions the arguments
\* are consumed once each, in order.
C21_BodyContinuesTheCursor ==
    /\ [][(log_pc = "header" /\ log_pc' = "body") => ap' = Len(reads)]_vars
    /\ [][(log_pc \in {"header", "body"}) =>
             (\A i \in 1..Len(reads') : reads'[i] + 1 = i)]_vars

\* C24: every emitted message is, in this order, the background escape and
\* the foreground escape built from the theme entry of the message's
\* severity, the header and body expansions, and the reset escape (with the
\* final newline, if there is one, behind it).
C24_PartsInOrder ==
    Emitted =>
        \E i \in 1..hues_glob_configuration.levels_count :
            LET entry == hues_glob_configuration.theme.format[i]
                colours == ESC_SEQ_BG(entry.background_color)
                              \o ESC_SEQ_FG(entry.foreground_color)
            IN  /\ entry.level = message.level.level
                /\ Len(stdout) >= Len(colours) + Len(ESC_SEQ_RST)
                /\ SubSeq(stdout, 1, Len(colours)) = colours
                /\ \/ EndsWith(stdout, ESC_SEQ_RST)
                   \/ EndsWith(stdout, ESC_SEQ_RST \o <<NEWLINE>>)

\* C25: the header expansion stays inside the render buffer: however long
\* the header template is, no byte is stored at or beyond offset BUFFER_SIZE
\* of the buffer while the header is expanded.
C25_HeaderStaysInRenderBuffer ==
    log_pc = "header" => hiw < BUFFER_SIZE

\* C26: every emitted message has the complete reset escape ESC[0m behind
\* its content (a final newline alone may follow it), also when header plus
\* body were cut at the end of the render buffer.
C26_ResetAlwaysEmitted ==
    Emitted =>
        \/ EndsWith(stdout, ESC_SEQ_RST)
        \/ EndsWith(stdout, ESC_SEQ_RST \o <<NEWLINE>>)

\* C27: with the default header and a call through a severity entry point
\* the header expansion consumes the two injected arguments, the level and
\* then the location, and the first argument the body consumes is the
\* caller's own first argument.
C27_HeaderConsumesInjectedPair ==
    (/\ log_pc \in {"body", "emitted"}
     /\ hues_glob_configuration.header_format = DefaultHeader
     /\ hues_glob_configuration.formats = Formats(DefaultFormats)) =>
        /\ Len(reads) >= 2
        /\ reads[1] = 0 /\ list[1].kind = "level"
        /\ reads[2] = 1 /\ list[2] = LocArg
        /\ Len(reads) >= 3 => reads[3] = 2

\* C28: no NULL theme and no NULL registry is dereferenced: a render that
\* passes the level filter looks its colours up in a theme that is set, and
\* an expansion standing at a prefix character has a registry that is set.
C28_NoNullDereference ==
    /\ log_pc = "lookup" => hues_glob_configuration.theme.alloc
    /\ (Scanning /\ Current = prefix) => formats.alloc

\* C29: hues_register_format_functions stores only inside the pointer array
\* it allocated: every index it stores to, the index of the NULL terminator
\* included, is below the number of slots of the block.
C29_RegisterStoresInsideBlock ==
    [][hues_initialize => \A i \in RegisterStores : i < RegisterSlots]_vars

\* ------------------------------------------------- scan-step properties
\* no registered specifier matches behind any prefix character of t, at any
\* probe length
NothingMatches(t) ==
    \A fp \in 0..(Len(t) - 1) :
        t[fp + 1] = prefix =>
            \A length \in 1..max_spec_len :
                MatchesAt(formats.entries, t, fp, length) = {}

\* C12: a prefix character whose following text matches no registered
\* specifier is literal text: when the call returns, the prefix and every
\* template character after it are in the output, unchanged and in order,
\* in hues_format_c as in hues_format_p (a template without '%' marker that
\* fits the buffer).
C12_UnmatchedPrefixIsLiteral ==
    (/\ Returned
     /\ formats.alloc
     /\ \E i \in 1..Len(to_format) : to_format[i] = prefix
     /\ \A i \in 1..Len(to_format) : to_format[i] # "%"
     /\ NothingMatches(to_format)
     /\ Len(to_format) < buffer_size)
        => /\ result = Len(to_format)
           /\ Bytes(mem, buffer, Len(to_format)) = to_format

\* the full text of entry i stands right behind the character at format_ptr
FullTextBehindPrefix(i) ==
    LET s == formats.entries[i].specifier
    IN  /\ format_ptr + 1 + Len(s) <= Len(to_format)
        /\ SubSeq(to_format, format_ptr + 2, format_ptr + 1 + Len(s)) = s

\* C18: a format function is invoked at a prefix only when the characters
\* behind the prefix are the full text of its specifier; a proper prefix of
\* a registered text invokes nothing.
C18_InvokedOnlyOnFullText ==
    [][\A i \in 1..Len(formats.entries) :
          invoked' = Append(invoked, i) => FullTextBehindPrefix(i)]_vars

\* C19: at a prefix character the scan either invokes a registered specifier
\* and advances by the length of its text plus one, or invokes nothing and
\* advances by one; the scan position does not pass the end of the template.
C19_PrefixStepAdvance ==
    [][(Scanning /\ Current = prefix /\ formats.alloc) =>
          /\ \A i \in 1..Len(formats.entries) :
                invoked' = Append(invoked, i) =>
                    format_ptr' =
                        format_ptr + Len(formats.entries[i].specifier) + 1
          /\ invoked' = invoked => format_ptr' = format_ptr + 1
          /\ format_ptr' <= Len(to_format)]_vars

\* C20: expansion terminates: every iteration of the scan loop that comes
\* back advances the scan position by at least one character, in the prefix
\* branch, the '%' branch and the literal branch, and every call that has
\* begun ends.
C20_ExpansionTerminates ==
    /\ [][Scanning => (format_ptr' >= format_ptr + 1 \/ pc' = "crash")]_vars
    /\ (pc = "scan") ~> (pc \in {"done", "crash"})

\* C20 witness: a call went through the prefix branch, the '%' branch and
\* the literal branch of "#%b" and returned with the scan at the end
C20_Witness ==
    /\ Returned
    /\ core = "p"
    /\ formats.alloc
    /\ to_format = <<"#", "%", "b">>
    /\ invoked = <<>>
    /\ reads = <<>>
    /\ format_ptr = Len(to_format)

\* the native formatter can accept, can reject, the candidate of length k at
\* the marker under the scan
AcceptedAt(k) ==
    {r \in Vsnprintf(Token(to_format, format_ptr, k), list, ap) :
        ProbeAccepted(r, Token(to_format, format_ptr, k))}

RejectedAt(k) ==
    \E r \in Vsnprintf(Token(to_format, format_ptr, k), list, ap) :
        ~ ProbeAccepted(r, Token(to_format, format_ptr, k))

C23_FirstRegisteredFires ==
    \A n \in 1..Len(invoked) : FirstWithItsText(invoked[n])

\* C23 witness: "a" was registered with the level formatter and then with
\* the pid formatter; "#a#a" invoked the first entry twice
C23_Witness ==
    /\ Returned
    /\ formats.entries = <<Format(<<"a">>, "level"), Format(<<"a">>, "pid")>>
    /\ formats = hues_glob_configuration.formats
    /\ to_format = <<"#", "a", "#", "a">>
    /\ invoked = <<1, 1>>

SixDigits(v) ==
    [i \in 1..6 |-> HexDigit((v \div (16 ^ (6 - i))) % 16)]

\* r = bits 16-23, g = bits 8-15, b = bits 0-7 of the value converted
ComponentsOf(c) == c.r * 65536 + c.g * 256 + c.b

\* C14 as stated: hues_hex_to_color followed by hues_color_to_hex yields the
\* six-digit lowercase hexadecimal text of the value.
C14_RoundTripSixDigits ==
    conversion.pc = "text" =>
        /\ ComponentsOf(conversion.clr) = conversion.hex
        /\ conversion.text = SixDigits(conversion.hex)

\* C14: hues_hex_to_color followed by hues_color_to_hex yields a '#' followed
\* by the six-digit lowercase hexadecimal text of the value, and the
\* components are bits 16-23, 8-15 and 0-7 of it.
C14_RoundTripHashSixDigits ==
    /\ conversion.pc # "none" =>
          ComponentsOf(conversion.clr) = conversion.hex
    /\ conversion.pc = "text" =>
          conversion.text = <<"#">> \o SixDigits(conversion.hex)

\* C14 witness: 0x0f10ff went through both conversions
C14_Witness ==
    /\ conversion.pc = "text"
    /\ conversion.hex = 15 * 65536 + 16 * 256 + 255
    /\ conversion.clr = [r |-> 15, g |-> 16, b |-> 255]
    /\ conversion.text = <<"#", "0", "f", "1", "0", "f", "f">>

\* ----------------------------------------------- configuration properties
\* the dark preset: the dark background table behind the dark foreground
\* table
DarkPreset ==
    ThemeFromHex(hues_theme_dark_foreground_colors_2,
                 hues_theme_dark_foreground_colors)

\* the specifier texts of a registry, in its order
SpecifiersOf(fmts) ==
    IF fmts.alloc THEN [i \in 1..Len(fmts.entries) |-> fmts.entries[i].specifier]
    ELSE <<>>

\* C15: hues_initialize returns with the minimum level TRACE, the prefix
\* '#', the header "(#d-#t) [#L in #c]  ", the registry d, t, L, f, F, l, c,
\* p in that order and the dark preset as the theme, whatever the
\* configuration was.
C15_InitializeInstallsDefaults ==
    [][hues_initialize =>
          /\ pc' = "idle"
          /\ hues_glob_configuration'.minimum_level = HUES_LEVEL_TRACE
          /\ hues_glob_configuration'.prefix = "#"
          /\ hues_glob_configuration'.header_format = DefaultHeader
          /\ SpecifiersOf(hues_glob_configuration'.formats) =
                <<<<"d">>, <<"t">>, <<"L">>, <<"f">>, <<"F">>, <<"l">>,
                  <<"c">>, <<"p">>>>
          /\ hues_glob_configuration'.theme = DarkPreset]_vars

\* the configuration fields other than f are what they were
OthersUnchanged(f) ==
    \A g \in (DOMAIN hues_glob_configuration) \ {f} :
        hues_glob_configuration'[g] = hues_glob_configuration[g]

\* C17: each setter changes its own field only, and the matching getter then
\* returns the value that was set.
C17_SettersChangeOwnFieldOnly ==
    [][/\ \A l \in Levels :
            hues_configuration_set_minimum_level(l) =>
                /\ hues_configuration_get_minimum_level' = l
                /\ OthersUnchanged("minimum_level")
       /\ \A h \in HeaderFormats :
            hues_configuration_set_level_format(h) =>
                /\ hues_configuration_get_level_format' = h
                /\ OthersUnchanged("header_format")
       /\ \A c \in Prefixes :
            hues_configuration_set_prefix(c) =>
                /\ hues_configuration_get_prefix' = c
                /\ OthersUnchanged("prefix")
       /\ \A t \in UserThemes :
            hues_configuration_set_theme(t) =>
                /\ hues_configuration_get_theme' = t
                /\ OthersUnchanged("theme")
       /\ \A r \in UserRegistries :
            hues_configuration_set_formats(r) =>
                /\ hues_configuration_get_formats' = r
                /\ OthersUnchanged("formats")]_vars

\* C17 witness: every field was set to a value of its own, and each kept it
\* through the setters called after
C17_Witness ==
    /\ hues_configuration_get_minimum_level = HUES_LEVEL_CRITICAL
    /\ hues_configuration_get_level_format = <<"#", "L">>
    /\ hues_configuration_get_prefix = "@"
    /\ hues_configuration_get_theme = FiveLevelTheme
    /\ hues_configuration_get_formats = Formats(DefaultFormats)

\* C30: the theme hues_theme_use_dark installs has, for every level, the
\* background colour of the dark background table and the foreground colour
\* of the dark foreground table, and the two differ.
C30_DarkThemeColoursDiffer ==
    [][hues_initialize =>
          LET theme == hues_glob_configuration'.theme
          IN  /\ theme.alloc
              /\ \A i \in 1..(HUES_LEVEL_UNKNOWN + 1) :
                    /\ theme.format[i].background_color =
                          hues_hex_to_color(hues_theme_dark_foreground_colors_2[i])
                    /\ theme.format[i].foreground_color =
                          hues_hex_to_color(hues_theme_dark_foreground_colors[i])
                    /\ theme.format[i].foreground_color #
                          theme.format[i].background_color]_vars

\* -------------------------------------------------------- thread properties
\* C11: while one thread renders and another registers a format, no
\* interleaving lets the render read a freed block or a slot of a registry
\* that is half-updated or has lost its terminator.
C11_RenderReadsOnlyCompleteRegistry ==
    renderer.fault \notin {"freed", "uninit"}

\* the slots of a registry holding the entries es
RegistryOf(es) ==
    [i \in 1..(Len(es) + 1) |->
        IF i <= Len(es) THEN SetSlot(es[i]) ELSE NullSlot]

====
